---- MODULE Spec2Model ----
(***************************************************************************)
(* The MongoDB policy adapter of src/adapter.go: the rule record codec     *)
(* (savePolicyLine / loadPolicyLine), the load/save protocol (LoadPolicy,  *)
(* SavePolicy, dropTable) and the three mutation stubs.                    *)
(*                                                                         *)
(* Strings.  A policy type (ptype) is a sequence of one-byte strings,      *)
(* because the code slices it (key[:1]); a rule field is a string, because *)
(* the code only compares it with "".                                      *)
(*                                                                         *)
(* Three specifications share the variables:                               *)
(*   SpecCodec  the codec applied to bounded inputs,                       *)
(*   Spec       one caller, every handler one action,                      *)
(*   SpecConc   a SavePolicy caller and a LoadPolicy caller on the same    *)
(*              collection, one action per database round trip.            *)
(***************************************************************************)
EXTENDS Integers, Sequences, FiniteSets, TLC

VARIABLES
    cpc,        \* codec run: "input", "encoded", "decoded"
    cptype,     \* codec run: the ptype given to savePolicyLine
    crule,      \* codec run: the rule given to savePolicyLine
    cline,      \* codec run: the CasbinRule built by savePolicyLine
    cres,       \* codec run: the outcome of loadPolicyLine on cline
    a,          \* the Adapter: its collection handle
    db,         \* the casbin_rule collection: its documents, whether it exists
    held,       \* the policy model the caller holds and hands to the adapter
    last,       \* the caller's last call: operation and outcome
    saved,      \* the model handed to the latest SavePolicy, whether it returned nil
    sv,         \* concurrent run: the SavePolicy caller
    lv          \* concurrent run: the LoadPolicy caller

codecVars == <<cpc, cptype, crule, cline, cres>>
adapterVars == <<a, db, held, last, saved>>
concVars == <<sv, lv>>
vars == <<cpc, cptype, crule, cline, cres, a, db, held, last, saved, sv, lv>>

(***************************************************************************)
(* Bounds and input alphabets.                                             *)
(***************************************************************************)
MaxLen == 7     \* longest rule handed to the codec (one more than the slots)

\* Field values of the codec runs; "" is Go's empty string.
Fields == {"", "alice", "read"}

\* Policy types of the codec runs; <<>> is the empty string.
PTypes == {<<>>, <<"p">>, <<"p", "2">>, <<"g">>, <<"g", "2">>}

CodecRules == UNION {[1..n -> Fields] : n \in 0..MaxLen}

(***************************************************************************)
(* The in-memory policy model: model[sec][key].Policy, a map of maps of    *)
(* assertions (casbin's model.Model).  A missing key of a Go map yields    *)
(* the zero value: a nil map, then a nil *Assertion.                       *)
(***************************************************************************)
Assertion(policy) == [Policy |-> policy]

\* Whether model[sec][key] is a non-nil *Assertion.
HasAssertion(model, sec, key) ==
    /\ sec \in DOMAIN model
    /\ key \in DOMAIN model[sec]

(***************************************************************************)
(* CasbinRule, the stored record.                                          *)
(***************************************************************************)
CasbinRule(ptype, v0, v1, v2, v3, v4, v5) ==
    [PType |-> ptype, V0 |-> v0, V1 |-> v1, V2 |-> v2,
     V3 |-> v3, V4 |-> v4, V5 |-> v5]

\* A savePolicyLine that keeps the last field of a long rule in V5.
savePolicyLineKeepsLast(ptype, rule) ==
    CasbinRule(ptype,
               IF Len(rule) > 0 THEN rule[1] ELSE "",
               IF Len(rule) > 1 THEN rule[2] ELSE "",
               IF Len(rule) > 2 THEN rule[3] ELSE "",
               IF Len(rule) > 3 THEN rule[4] ELSE "",
               IF Len(rule) > 4 THEN rule[5] ELSE "",
               IF Len(rule) > 5 THEN rule[Len(rule)] ELSE "")

\* savePolicyLine: the zero CasbinRule, then one guarded assignment per slot.
savePolicyLine(ptype, rule) ==
    CasbinRule(ptype,
               IF Len(rule) > 0 THEN rule[1] ELSE "",
               IF Len(rule) > 1 THEN rule[2] ELSE "",
               IF Len(rule) > 2 THEN rule[3] ELSE "",
               IF Len(rule) > 3 THEN rule[4] ELSE "",
               IF Len(rule) > 4 THEN rule[5] ELSE "",
               IF Len(rule) > 5 THEN rule[6] ELSE "")

\* Tokens that skip an empty slot and go on, instead of stopping at it.
tokensSkipEmpty(line) ==
    SelectSeq(<<line.V0, line.V1, line.V2, line.V3, line.V4, line.V5>>,
              LAMBDA v : v # "")

\* The tokens of loadPolicyLine: append V0, V1, ... and goto LineEnd at the
\* first empty one.
tokens(line) ==
    IF line.V0 = "" THEN <<>>
    ELSE IF line.V1 = "" THEN <<line.V0>>
    ELSE IF line.V2 = "" THEN <<line.V0, line.V1>>
    ELSE IF line.V3 = "" THEN <<line.V0, line.V1, line.V2>>
    ELSE IF line.V4 = "" THEN <<line.V0, line.V1, line.V2, line.V3>>
    ELSE IF line.V5 = "" THEN <<line.V0, line.V1, line.V2, line.V3, line.V4>>
    ELSE <<line.V0, line.V1, line.V2, line.V3, line.V4, line.V5>>

\* loadPolicyLine(line, model).  key[:1] panics on the empty string (slice
\* bounds out of range); model[sec][key].Policy panics when the assertion is
\* not in the model (nil pointer dereference).  Otherwise the tokens are
\* appended to model[sec][key].Policy.
loadPolicyLine(line, model) ==
    LET key == line.PType IN
    IF Len(key) < 1
    THEN [panic |-> TRUE, sec |-> <<>>, key |-> key, model |-> model]
    ELSE LET sec == SubSeq(key, 1, 1) IN
         IF ~HasAssertion(model, sec, key)
         THEN [panic |-> TRUE, sec |-> sec, key |-> key, model |-> model]
         ELSE [panic |-> FALSE, sec |-> sec, key |-> key,
               model |-> [model EXCEPT ![sec][key].Policy =
                                           Append(@, tokens(line))]]

(***************************************************************************)
(* Policy models.  casbin keeps an assertion under the section named by    *)
(* the first byte of its key; "e" stands for the sections other than "p"   *)
(* and "g".  The caller's model holds at most MaxRules rules: it is built  *)
(* with no more, and LoadPolicy is not called where it would outgrow that. *)
(***************************************************************************)
MaxRules == 2

P == <<"p">>
P2 == <<"p", "2">>
G == <<"g">>
E == <<"e">>

Nil == "nil"            \* Go's nil: a nil error, a nil collection handle
NoRet == "no return"    \* the call panicked: it returned nothing

Keys == {P, P2, G, E}

\* The rules the caller puts under each assertion: plain ones, one with an
\* empty field inside, one of seven fields, one of no field.
RulesOf(key) ==
    IF key = P THEN { <<"alice", "data1", "read">>,
                      <<"alice", "", "read">>,
                      <<"alice", "data1", "read", "allow", "x", "y", "z">> }
    ELSE IF key = G THEN { <<"alice", "admin">> }
    ELSE IF key = P2 THEN { <<"bob", "data2", "write">>, <<>> }
    ELSE { <<"some", "allow">> }

PoliciesOf(key, n) == UNION {[1..k -> RulesOf(key)] : k \in 0..n}

\* The functions keys -> Policy holding at most budget rules in all.
RECURSIVE Fill(_, _)
Fill(keys, budget) ==
    IF keys = {} THEN {<<>>}
    ELSE LET k == CHOOSE x \in keys : TRUE
         IN  UNION {{(k :> pol) @@ f : f \in Fill(keys \ {k}, budget - Len(pol))} :
                        pol \in PoliciesOf(k, budget)}

\* The model declaring the assertions of DOMAIN f, each under its first byte.
Nest(f) ==
    [sec \in {SubSeq(k, 1, 1) : k \in DOMAIN f} |->
        [key \in {k \in DOMAIN f : SubSeq(k, 1, 1) = sec} |-> Assertion(f[key])]]

\* The models a caller builds: every assertion declared, or all but p2.
Models ==
    {Nest(f) : f \in Fill(Keys, MaxRules)} \cup {Nest(f) : f \in Fill(Keys \ {P2}, MaxRules)}

\* model.ClearPolicy(): the same assertions, each with an empty Policy.
Cleared(model) ==
    [sec \in DOMAIN model |-> [key \in DOMAIN model[sec] |-> Assertion(<<>>)]]

\* A new model declaring every assertion, with no rule yet.
FreshModel == Nest([k \in Keys |-> <<>>])

RECURSIVE SumLen(_, _)
SumLen(f, S) ==
    IF S = {} THEN 0
    ELSE LET x == CHOOSE y \in S : TRUE IN Len(f[x].Policy) + SumLen(f, S \ {x})

RECURSIVE RuleCount(_, _)
RuleCount(model, secs) ==
    IF secs = {} THEN 0
    ELSE LET s == CHOOSE y \in secs : TRUE
         IN  SumLen(model[s], DOMAIN model[s]) + RuleCount(model, secs \ {s})

\* The orders in which Go may range over a map with the keys S.
Orders(S) == {o \in [1..Cardinality(S) -> S] : \A i, j \in DOMAIN o : o[i] = o[j] => i = j}

\* The orders in which the store may iterate over the documents coll.
Iterations(coll) ==
    {[i \in DOMAIN coll |-> coll[o[i]]] : o \in Orders(DOMAIN coll)}

(***************************************************************************)
(* The collection.  DropCollection removes the namespace; the server       *)
(* answers "ns not found" when there is none, and any call may fail for    *)
(* another reason ("other").  Insert creates the namespace with the first  *)
(* document written.                                                       *)
(***************************************************************************)
DropOutcomes(d) == (IF d.exists THEN {"ok"} ELSE {"ns not found"}) \cup {"other"}

DropCollection(d, out) ==
    IF out = "ok" THEN [coll |-> <<>>, exists |-> FALSE] ELSE d

\* The collection after the first k documents of lines were written.
Insert(d, lines, k) ==
    [coll |-> d.coll \o SubSeq(lines, 1, k), exists |-> d.exists \/ k > 0]

\* A dropTable that never calls DropCollection.
dropTableKeeps(adapter, d, out) ==
    [db |-> d, err |-> Nil, panic |-> FALSE]

\* A dropTable that panics on every drop error, "ns not found" included.
dropTablePanics(adapter, d, out) ==
    IF adapter.collection = Nil
    THEN [db |-> d, err |-> Nil, panic |-> FALSE]
    ELSE LET err == IF out = "ok" THEN Nil ELSE out
         IN  [db |-> DropCollection(d, out), err |-> err, panic |-> err # Nil]

\* dropTable: nothing without a collection handle; a drop error other than
\* "ns not found" panics.
dropTable(adapter, d, out) ==
    IF adapter.collection = Nil
    THEN [db |-> d, err |-> Nil, panic |-> FALSE]
    ELSE LET err == IF out = "ok" THEN Nil ELSE out
         IN  [db |-> DropCollection(d, out),
              err |-> err,
              panic |-> err # Nil /\ err # "ns not found"]

\* The lines of one section: for ptype, ast := range model[sec], in the order
\* given, one savePolicyLine per rule of ast.Policy.  A section the model
\* lacks is a nil map: no iteration.
RECURSIVE SectionLines(_, _, _)
SectionLines(model, sec, order) ==
    IF sec \notin DOMAIN model \/ order = <<>> THEN <<>>
    ELSE LET ptype == Head(order)
             policy == model[sec][ptype].Policy
         IN  [i \in DOMAIN policy |-> savePolicyLine(ptype, policy[i])]
                 \o SectionLines(model, sec, Tail(order))

SectionOrders(model, sec) ==
    IF sec \in DOMAIN model THEN Orders(DOMAIN model[sec]) ELSE {<<>>}

\* Lines that leave section "g" out.
LinesOnlyP(model, orderP, orderG) ==
    SectionLines(model, P, orderP)

\* The lines SavePolicy builds: section "p", then section "g".
Lines(model, orderP, orderG) ==
    SectionLines(model, P, orderP) \o SectionLines(model, G, orderG)

\* The outcomes of Insert(lines...): nil once every document is written, or
\* an error after any number of them.
InsertOutcomes(lines) ==
    {[written |-> Len(lines), err |-> Nil]}
        \cup {[written |-> k, err |-> "insert error"] : k \in 0..Len(lines)}

\* A SavePolicy that puts the old documents back when the Insert fails.
SavePolicyRunRollsBack(adapter, d, model, orderP, orderG, dropOut, ins) ==
    LET dropped == dropTable(adapter, d, dropOut)
        lines == Lines(model, orderP, orderG)
    IN  IF dropped.panic
        THEN [db |-> dropped.db, panic |-> TRUE, ret |-> NoRet,
              dropErr |-> dropped.err, insErr |-> Nil, lines |-> <<>>,
              inserts |-> 0, written |-> 0]
        ELSE [db |-> IF ins.err = Nil THEN Insert(dropped.db, lines, ins.written) ELSE d,
              panic |-> FALSE, ret |-> ins.err, dropErr |-> dropped.err,
              insErr |-> ins.err, lines |-> lines, inserts |-> 1,
              written |-> ins.written]

\* SavePolicy: dropTable, createTable (empty), the lines, one Insert, and the
\* Insert's error returned.
SavePolicyRun(adapter, d, model, orderP, orderG, dropOut, ins) ==
    LET dropped == dropTable(adapter, d, dropOut)
        lines == Lines(model, orderP, orderG)
    IN  IF dropped.panic
        THEN [db |-> dropped.db, panic |-> TRUE, ret |-> NoRet,
              dropErr |-> dropped.err, insErr |-> Nil, lines |-> <<>>,
              inserts |-> 0, written |-> 0]
        ELSE [db |-> Insert(dropped.db, lines, ins.written), panic |-> FALSE,
              ret |-> ins.err, dropErr |-> dropped.err, insErr |-> ins.err,
              lines |-> lines, inserts |-> 1, written |-> ins.written]

\* The loop of LoadPolicy over the documents the cursor delivers: one
\* loadPolicyLine each, until one panics.
RECURSIVE LoadLines(_, _)
LoadLines(scan, model) ==
    IF scan = <<>> THEN [panic |-> FALSE, model |-> model]
    ELSE LET r == loadPolicyLine(Head(scan), model)
         IN  IF r.panic THEN [panic |-> TRUE, model |-> r.model]
             ELSE LoadLines(Tail(scan), r.model)

\* The outcomes of the cursor over scan: every document and a nil Close, or
\* an error after any number of documents.
IterOutcomes(scan) ==
    {[read |-> Len(scan), err |-> Nil]}
        \cup {[read |-> k, err |-> "cursor error"] : k \in 0..Len(scan)}

\* LoadPolicy: Find(nil).Iter(), the loop, and iter.Close()'s error returned.
LoadPolicyRun(scan, model, it) ==
    LET r == LoadLines(SubSeq(scan, 1, it.read), model)
    IN  [panic |-> r.panic, model |-> r.model,
         ret |-> IF r.panic THEN NoRet ELSE it.err]

(***************************************************************************)
(* Spec: one caller holding one policy model.  The state after NewAdapter: *)
(* the collection handle is set, createIndice has created the collection,  *)
(* which holds whatever the database held before.                          *)
(***************************************************************************)
NoModel == [sec \in {} |-> <<>>]

NoCall ==
    [op |-> "none", ret |-> Nil, panic |-> FALSE, arg |-> NoModel,
     dropErr |-> Nil, insErr |-> Nil, lines |-> <<>>, inserts |-> 0,
     written |-> 0, stale |-> FALSE, scan |-> <<>>, read |-> 0, iterErr |-> Nil]

InitColls ==
    { <<>>,
      <<CasbinRule(P, "alice", "", "read", "", "", "")>>,
      <<CasbinRule(P2, "bob", "data2", "write", "", "", "")>>,
      <<CasbinRule(<<>>, "alice", "data1", "read", "", "", "")>> }

IdleSaver == [pc |-> "idle", model |-> NoModel, lines |-> <<>>, written |-> 0,
              before |-> <<>>, ret |-> Nil]
IdleLoader == [pc |-> "idle", scan |-> <<>>, model |-> NoModel, ret |-> Nil,
               during |-> "idle", seen |-> 0]

InitCodecVars ==
    /\ cpc = "input"
    /\ cptype = <<>>
    /\ crule = <<>>
    /\ cline = CasbinRule(<<>>, "", "", "", "", "", "")
    /\ cres = [panic |-> FALSE, sec |-> <<>>, key |-> <<>>, model |-> NoModel]

InitAdapter ==
    /\ a = [collection |-> "casbin_rule"]
    /\ db = [coll |-> <<>>, exists |-> TRUE]
    /\ held = NoModel
    /\ last = NoCall
    /\ saved = [ok |-> FALSE, model |-> NoModel]

InitConcVars ==
    /\ sv = IdleSaver
    /\ lv = IdleLoader

Init ==
    /\ a = [collection |-> "casbin_rule"]
    /\ db \in {[coll |-> c, exists |-> TRUE] : c \in InitColls}
    /\ held \in Models
    /\ last = NoCall
    /\ saved = [ok |-> FALSE, model |-> NoModel]
    /\ InitCodecVars
    /\ InitConcVars

\* SavePolicy(model) on the caller's model, whole.
SavePolicy ==
    /\ ~last.panic
    /\ \E orderP \in SectionOrders(held, P), orderG \in SectionOrders(held, G),
          dropOut \in DropOutcomes(db) :
          \E ins \in InsertOutcomes(Lines(held, orderP, orderG)) :
             LET r == SavePolicyRun(a, db, held, orderP, orderG, dropOut, ins)
             IN  /\ db' = r.db
                 /\ last' = [NoCall EXCEPT !.op = "SavePolicy", !.ret = r.ret,
                                !.panic = r.panic, !.arg = held,
                                !.dropErr = r.dropErr, !.insErr = r.insErr,
                                !.lines = r.lines,
                                !.inserts = r.inserts, !.written = r.written,
                                !.stale = \E i \in DOMAIN db.coll :
                                             \A j \in DOMAIN r.lines :
                                                 r.lines[j] # db.coll[i]]
                 /\ saved' = [ok |-> ~r.panic /\ r.ret = Nil, model |-> held]
    /\ UNCHANGED <<a, held, codecVars, concVars>>

\* LoadPolicy(model) into the caller's model, whole.
LoadPolicy ==
    /\ ~last.panic
    /\ RuleCount(held, DOMAIN held) + Len(db.coll) <= MaxRules
    /\ \E scan \in Iterations(db.coll) :
          \E it \in IterOutcomes(scan) :
             LET r == LoadPolicyRun(scan, held, it)
             IN  /\ held' = r.model
                 /\ last' = [NoCall EXCEPT !.op = "LoadPolicy", !.ret = r.ret,
                                !.panic = r.panic, !.arg = held,
                                !.scan = scan, !.read = it.read,
                                !.iterErr = it.err]
    /\ UNCHANGED <<a, db, saved, codecVars, concVars>>

\* The caller empties its model (casbin's ClearPolicy) before a reload.
ClearPolicy ==
    /\ ~last.panic
    /\ held' = Cleared(held)
    /\ last' = [NoCall EXCEPT !.op = "ClearPolicy"]
    /\ UNCHANGED <<a, db, saved, codecVars, concVars>>

\* An AddPolicy that stores the rule and returns nil.
AddPolicyStores(sec, ptype, rule) ==
    /\ ~last.panic
    /\ db' = Insert(db, <<savePolicyLine(ptype, rule)>>, 1)
    /\ last' = [NoCall EXCEPT !.op = "AddPolicy"]
    /\ UNCHANGED <<a, held, saved, codecVars, concVars>>

\* AddPolicy, RemovePolicy, RemoveFilteredPolicy: errors.New("not implemented").
AddPolicy(sec, ptype, rule) ==
    /\ ~last.panic
    /\ last' = [NoCall EXCEPT !.op = "AddPolicy", !.ret = "not implemented"]
    /\ UNCHANGED <<a, db, held, saved, codecVars, concVars>>

RemovePolicy(sec, ptype, rule) ==
    /\ ~last.panic
    /\ last' = [NoCall EXCEPT !.op = "RemovePolicy", !.ret = "not implemented"]
    /\ UNCHANGED <<a, db, held, saved, codecVars, concVars>>

RemoveFilteredPolicy(sec, ptype, fieldIndex, fieldValues) ==
    /\ ~last.panic
    /\ last' = [NoCall EXCEPT !.op = "RemoveFilteredPolicy", !.ret = "not implemented"]
    /\ UNCHANGED <<a, db, held, saved, codecVars, concVars>>

\* Arguments of the mutation stubs.
StubSections == {P, <<"x">>}
StubPTypes == {P}
StubRules == {<<>>, <<"alice", "data1", "read">>}

Next ==
    \/ SavePolicy
    \/ LoadPolicy
    \/ ClearPolicy
    \/ \E sec \in StubSections, ptype \in StubPTypes, rule \in StubRules :
          AddPolicy(sec, ptype, rule)
    \/ \E sec \in StubSections, ptype \in StubPTypes, rule \in StubRules :
          RemovePolicy(sec, ptype, rule)
    \/ \E sec \in StubSections, ptype \in StubPTypes, fieldIndex \in 0..1,
          fieldValues \in StubRules :
          RemoveFilteredPolicy(sec, ptype, fieldIndex, fieldValues)

Spec == Init /\ [][Next]_vars

(***************************************************************************)
(* SpecCodec: savePolicyLine, then loadPolicyLine into an empty model that *)
(* declares every non-empty ptype of PTypes under its first byte.          *)
(***************************************************************************)
CodecSections == {SubSeq(k, 1, 1) : k \in {k \in PTypes : Len(k) > 0}}

CodecModel ==
    [sec \in CodecSections |->
        [key \in {k \in PTypes : Len(k) > 0 /\ SubSeq(k, 1, 1) = sec} |->
            Assertion(<<>>)]]

NoLine == CasbinRule(<<>>, "", "", "", "", "", "")
NoRes == [panic |-> FALSE, sec |-> <<>>, key |-> <<>>, model |-> CodecModel]

InitCodec ==
    /\ cpc = "input"
    /\ cptype \in PTypes
    /\ crule \in CodecRules
    /\ cline = NoLine
    /\ cres = NoRes
    /\ InitAdapter
    /\ InitConcVars

Encode ==
    /\ cpc = "input"
    /\ cline' = savePolicyLine(cptype, crule)
    /\ cpc' = "encoded"
    /\ UNCHANGED <<cptype, crule, cres, adapterVars, concVars>>

Decode ==
    /\ cpc = "encoded"
    /\ cres' = loadPolicyLine(cline, CodecModel)
    /\ cpc' = "decoded"
    /\ UNCHANGED <<cptype, crule, cline, adapterVars, concVars>>

NextCodec == Encode \/ Decode

SpecCodec == InitCodec /\ [][NextCodec]_vars

(***************************************************************************)
(* SpecConc: one caller runs SavePolicy, another runs LoadPolicy on the    *)
(* same collection.  The adapter takes no lock; every step is one request  *)
(* to the store: the drop, each document of the Insert, the Insert's       *)
(* reply, the Find that fills the cursor, the cursor's Close.  The         *)
(* collection holds the records of an earlier SavePolicy.                  *)
(***************************************************************************)
ConcColls ==
    { <<CasbinRule(P, "alice", "data1", "read", "", "", ""),
        CasbinRule(G, "alice", "admin", "", "", "", "")>>,
      <<CasbinRule(P2, "bob", "data2", "write", "", "", "")>> }

InitConc ==
    /\ a = [collection |-> "casbin_rule"]
    /\ db \in {[coll |-> c, exists |-> TRUE] : c \in ConcColls}
    /\ held = NoModel
    /\ last = NoCall
    /\ saved = [ok |-> FALSE, model |-> NoModel]
    /\ InitCodecVars
    /\ sv \in {[IdleSaver EXCEPT !.model = m] : m \in Models}
    /\ lv = [IdleLoader EXCEPT !.model = FreshModel]

\* SavePolicy up to the Insert: dropTable, createTable, the lines.
SaveDrop ==
    /\ sv.pc = "idle"
    /\ \E orderP \in SectionOrders(sv.model, P), orderG \in SectionOrders(sv.model, G),
          dropOut \in DropOutcomes(db) :
          LET dropped == dropTable(a, db, dropOut)
          IN  /\ db' = dropped.db
              /\ sv' = [sv EXCEPT !.pc = IF dropped.panic THEN "panic" ELSE "inserting",
                                  !.lines = Lines(sv.model, orderP, orderG),
                                  !.before = db.coll,
                                  !.ret = IF dropped.panic THEN NoRet ELSE Nil]
    /\ UNCHANGED <<a, held, last, saved, lv, codecVars>>

\* The store writes the next document of the Insert.
SaveInsertDoc ==
    /\ sv.pc = "inserting"
    /\ sv.written < Len(sv.lines)
    /\ db' = Insert(db, <<sv.lines[sv.written + 1]>>, 1)
    /\ sv' = [sv EXCEPT !.written = @ + 1]
    /\ UNCHANGED <<a, held, last, saved, lv, codecVars>>

\* The Insert replies, and SavePolicy returns its error.
SaveReturn ==
    /\ sv.pc = "inserting"
    /\ \E ins \in InsertOutcomes(sv.lines) :
          /\ ins.written = sv.written
          /\ sv' = [sv EXCEPT !.pc = "done", !.ret = ins.err]
    /\ UNCHANGED <<a, db, held, last, saved, lv, codecVars>>

\* A LoadPolicy that waits while a SavePolicy is between its drop and its
\* return.
LoadFindLocked ==
    /\ lv.pc = "idle"
    /\ sv.pc # "inserting"
    /\ \E scan \in Iterations(db.coll) :
          lv' = [lv EXCEPT !.pc = "iter", !.scan = scan, !.during = sv.pc,
                           !.seen = sv.written]
    /\ UNCHANGED <<a, db, held, last, saved, sv, codecVars>>

\* LoadPolicy's Find(nil).Iter(): the cursor gets the documents the
\* collection holds now.
LoadFind ==
    /\ lv.pc = "idle"
    /\ \E scan \in Iterations(db.coll) :
          lv' = [lv EXCEPT !.pc = "iter", !.scan = scan, !.during = sv.pc,
                           !.seen = sv.written]
    /\ UNCHANGED <<a, db, held, last, saved, sv, codecVars>>

\* LoadPolicy's loop over the cursor, iter.Close() and the return.
LoadReturn ==
    /\ lv.pc = "iter"
    /\ \E it \in IterOutcomes(lv.scan) :
          LET r == LoadPolicyRun(lv.scan, lv.model, it)
          IN  lv' = [lv EXCEPT !.pc = IF r.panic THEN "panic" ELSE "done",
                               !.model = r.model, !.ret = r.ret]
    /\ UNCHANGED <<a, db, held, last, saved, sv, codecVars>>

NextConc == SaveDrop \/ SaveInsertDoc \/ SaveReturn \/ LoadFind \/ LoadReturn

SpecConc == InitConc /\ [][NextConc]_vars

(***************************************************************************)
(* What the claims speak of, stated apart from the operators above.        *)
(***************************************************************************)
MaxFields == 6      \* the slots V0..V5 of CasbinRule

Slots(line) == <<line.V0, line.V1, line.V2, line.V3, line.V4, line.V5>>

NoEmptyField(rule) == \A i \in DOMAIN rule : rule[i] # ""

\* The longest prefix of s made only of non-empty strings.
NonEmptyPrefix(s) ==
    LET n == CHOOSE k \in 0..Len(s) :
                 /\ \A i \in 1..k : s[i] # ""
                 /\ k = Len(s) \/ s[k + 1] = ""
    IN  SubSeq(s, 1, n)

\* The stored record of a rule: its first six fields in v0..v5, the slots
\* after the rule's end empty.
StoredRecordOf(ptype, fields) ==
    [PType |-> ptype,
     V0 |-> IF Len(fields) >= 1 THEN fields[1] ELSE "",
     V1 |-> IF Len(fields) >= 2 THEN fields[2] ELSE "",
     V2 |-> IF Len(fields) >= 3 THEN fields[3] ELSE "",
     V3 |-> IF Len(fields) >= 4 THEN fields[4] ELSE "",
     V4 |-> IF Len(fields) >= 5 THEN fields[5] ELSE "",
     V5 |-> IF Len(fields) >= 6 THEN fields[6] ELSE ""]

\* The rule a completed codec run appended.
DecodedRule == cres.model[cres.sec][cres.key].Policy[1]

Occurrences(seq, x) == Cardinality({i \in DOMAIN seq : seq[i] = x})

\* The two sequences hold the same documents, in whatever order.
SameDocs(s1, s2) ==
    /\ Len(s1) = Len(s2)
    /\ \A i \in DOMAIN s1 : Occurrences(s1, s1[i]) = Occurrences(s2, s1[i])

PersistedSections(model) == {P, G} \cap DOMAIN model

\* How many times the model holds rule under ptype key in sections "p", "g".
RECURSIVE PairCount(_, _, _, _)
PairCount(model, secs, key, rule) ==
    IF secs = {} THEN 0
    ELSE LET s == CHOOSE y \in secs : TRUE
         IN  (IF key \in DOMAIN model[s]
              THEN Occurrences(model[s][key].Policy, rule) ELSE 0)
                 + PairCount(model, secs \ {s}, key, rule)

PairKeys(model) == UNION {DOMAIN model[s] : s \in PersistedSections(model)}

PairRules(model) ==
    UNION {UNION {{model[s][k].Policy[i] : i \in DOMAIN model[s][k].Policy} :
                     k \in DOMAIN model[s]} :
              s \in PersistedSections(model)}

\* The two models hold the same multiset of (ptype, fields) pairs.
SamePairs(m1, m2) ==
    \A key \in PairKeys(m1) \cup PairKeys(m2), rule \in PairRules(m1) \cup PairRules(m2) :
        PairCount(m1, PersistedSections(m1), key, rule)
            = PairCount(m2, PersistedSections(m2), key, rule)

\* How many rules of sections "p" and "g" of the model have rec as their
\* stored record.
RECURSIVE RecordCount(_, _, _)
RecordCount(model, pairs, rec) ==
    IF pairs = {} THEN 0
    ELSE LET pr == CHOOSE y \in pairs : TRUE
         IN  (IF StoredRecordOf(pr[1], pr[2]) = rec
              THEN PairCount(model, PersistedSections(model), pr[1], pr[2]) ELSE 0)
                 + RecordCount(model, pairs \ {pr}, rec)

ExpectedCount(model, rec) ==
    RecordCount(model, PairKeys(model) \X PairRules(model), rec)

ExpectedRecords(model) ==
    {StoredRecordOf(pr[1], pr[2]) : pr \in
        {q \in PairKeys(model) \X PairRules(model) :
            PairCount(model, PersistedSections(model), q[1], q[2]) > 0}}

StoredRecords == {db.coll[i] : i \in DOMAIN db.coll}

(***************************************************************************)
(* C4 (as claimed): for every ptype and every rule of 0 to 6 non-empty     *)
(* fields, decoding the encoded record yields the section key equal to the *)
(* first character of ptype, the same ptype and the same fields in order.  *)
(* loadPolicyLine panics on the empty ptype, so this is violated.          *)
(***************************************************************************)
C4_CodecRoundTrip ==
    (cpc = "decoded" /\ Len(crule) <= MaxFields /\ NoEmptyField(crule))
        => /\ ~cres.panic
           /\ cres.sec = <<cptype[1]>>
           /\ cres.key = cptype
           /\ cres.model[cres.sec][cres.key].Policy = <<crule>>

(***************************************************************************)
(* C5: the rule decoded from a stored record is exactly the longest prefix *)
(* of (v0..v5) made only of non-empty strings: the tokens the decoder      *)
(* builds from every record are that prefix, and a decode that completes   *)
(* appends that prefix and nothing else.                                   *)
(***************************************************************************)
C5_DecodeStopsAtFirstEmpty ==
    /\ cpc \in {"encoded", "decoded"}
          => tokens(cline) = NonEmptyPrefix(Slots(cline))
    /\ (cpc = "decoded" /\ ~cres.panic)
          => cres.model[cres.sec][cres.key].Policy = <<NonEmptyPrefix(Slots(cline))>>

\* The record v0="alice", v1="", v2="read" was decoded to ["alice"].
C5_Witness ==
    /\ cpc = "decoded"
    /\ ~cres.panic
    /\ cline.V0 = "alice" /\ cline.V1 = "" /\ cline.V2 = "read"
    /\ DecodedRule = <<"alice">>

(***************************************************************************)
(* C6 (as claimed): for every rule with more than 6 fields, encode stores  *)
(* fields 0..5 in v0..v5 and drops the rest, and decoding the record       *)
(* returns exactly 6 fields.  Stated for the decodes that complete.        *)
(***************************************************************************)
C6_LongRuleDecodesToSix ==
    (cpc = "decoded" /\ ~cres.panic /\ Len(crule) > MaxFields)
        => /\ Slots(cline) = SubSeq(crule, 1, MaxFields)
           /\ Len(DecodedRule) = MaxFields

(***************************************************************************)
(* C6 (amended): for every rule with more than 6 fields, encode stores     *)
(* fields 0..5 in v0..v5 and drops every field beyond index 5; the rule    *)
(* decoding builds from that record is the longest prefix of those six     *)
(* fields without an empty string: exactly the six fields when none of     *)
(* them is empty, fewer otherwise, never more.                             *)
(***************************************************************************)
C6_LongRuleTruncated ==
    (cpc \in {"encoded", "decoded"} /\ Len(crule) > MaxFields)
        => LET six == SubSeq(crule, 1, MaxFields) IN
           /\ Slots(cline) = six
           /\ tokens(cline) = NonEmptyPrefix(six)
           /\ Len(tokens(cline)) <= MaxFields
           /\ NoEmptyField(six) => tokens(cline) = six
           /\ ~NoEmptyField(six) => Len(tokens(cline)) < MaxFields
           /\ (cpc = "decoded" /\ ~cres.panic)
                 => cres.model[cres.sec][cres.key].Policy = <<NonEmptyPrefix(six)>>

\* A rule of more than six non-empty fields was encoded and decoded to its
\* first six fields.
C6_Witness ==
    /\ cpc = "decoded"
    /\ ~cres.panic
    /\ Len(crule) > MaxFields
    /\ NoEmptyField(crule)
    /\ crule[MaxFields] # crule[Len(crule)]
    /\ DecodedRule = SubSeq(crule, 1, MaxFields)

(***************************************************************************)
(* C1 (as claimed): after a SavePolicy that returned nil, a LoadPolicy     *)
(* that returns nil into the emptied model (the same assertions declared)  *)
(* leaves it with the same multiset of (ptype, fields) pairs as the saved  *)
(* model, provided no rule of the saved model has an empty field.          *)
(***************************************************************************)
RoundTripDone ==
    /\ last.op = "LoadPolicy"
    /\ ~last.panic
    /\ last.ret = Nil
    /\ saved.ok
    /\ last.arg = Cleared(saved.model)

C1_RoundTrip ==
    (RoundTripDone /\ \A r \in PairRules(saved.model) : NoEmptyField(r))
        => SamePairs(held, saved.model)

(***************************************************************************)
(* C1 (amended): the same, provided also that no rule of the saved model   *)
(* has more than 6 fields.                                                 *)
(***************************************************************************)
C1_RoundTripUpToSix ==
    (RoundTripDone /\ \A r \in PairRules(saved.model) :
                          NoEmptyField(r) /\ Len(r) <= MaxFields)
        => SamePairs(held, saved.model)

\* The scenario of the specification: p = [[alice, data1, read]] and
\* g = [[alice, admin]] saved, then loaded into the emptied model.
C1_Witness ==
    /\ RoundTripDone
    /\ saved.model[P][P].Policy = << <<"alice", "data1", "read">> >>
    /\ saved.model[G][G].Policy = << <<"alice", "admin">> >>
    /\ held[P][P].Policy = << <<"alice", "data1", "read">> >>
    /\ held[G][G].Policy = << <<"alice", "admin">> >>

(***************************************************************************)
(* C2: after a SavePolicy that returned nil the collection holds exactly   *)
(* one stored record per rule of every ptype under sections "p" and "g" of *)
(* the model: nothing of what it held before, nothing of another section.  *)
(***************************************************************************)
C2_FullReplace ==
    (last.op = "SavePolicy" /\ ~last.panic /\ last.ret = Nil)
        => /\ \A rec \in StoredRecords \cup ExpectedRecords(last.arg) :
                 Occurrences(db.coll, rec) = ExpectedCount(last.arg, rec)
           /\ Len(db.coll) = RuleCount(last.arg, PersistedSections(last.arg))
           /\ \A rec \in StoredRecords : SubSeq(rec.PType, 1, 1) \in {P, G}

\* A SavePolicy returned nil on a collection that held a record the model
\* does not produce, for a model with a rule outside "p" and "g".
C2_Witness ==
    /\ last.op = "SavePolicy"
    /\ last.ret = Nil
    /\ last.stale
    /\ db.coll # <<>>
    /\ RuleCount(last.arg, DOMAIN last.arg) > RuleCount(last.arg, PersistedSections(last.arg))

(***************************************************************************)
(* C3: AddPolicy, RemovePolicy and RemoveFilteredPolicy each return the    *)
(* "not implemented" error, never panic, and leave the collection as it    *)
(* was, whatever the arguments and the state.                              *)
(***************************************************************************)
StubOps == {"AddPolicy", "RemovePolicy", "RemoveFilteredPolicy"}

SavedAsAfterDrop ==
    /\ ~last.panic
    /\ last.inserts = 1
    /\ last.ret = last.insErr
    /\ db.coll = SubSeq(last.lines, 1, last.written)
    /\ \A rec \in ExpectedRecords(last.arg) :
           Occurrences(last.lines, rec) = ExpectedCount(last.arg, rec)
    /\ Len(last.lines) = RuleCount(last.arg, PersistedSections(last.arg))

C7_DropNotFoundTolerated ==
    last.op = "SavePolicy"
        => /\ last.dropErr \in {Nil, "ns not found"} => SavedAsAfterDrop
           /\ last.dropErr \notin {Nil, "ns not found"}
                 => last.panic /\ last.ret = NoRet

\* A SavePolicy on a collection that did not exist stored its records and
\* returned nil.
C7_Witness ==
    /\ last.op = "SavePolicy"
    /\ last.dropErr = "ns not found"
    /\ last.ret = Nil
    /\ db.coll # <<>>

(***************************************************************************)
(* C8: when the Insert of SavePolicy fails, SavePolicy returns that error  *)
(* (no panic, one Insert only) and the collection holds what the Insert    *)
(* wrote, a part of the new records: nothing of the old ones.              *)
(***************************************************************************)
C8_InsertFailureSurfaced ==
    (last.op = "SavePolicy" /\ last.insErr # Nil)
        => /\ ~last.panic
           /\ last.ret = last.insErr
           /\ last.inserts = 1
           /\ Len(db.coll) = last.written
           /\ \A rec \in StoredRecords :
                 Occurrences(db.coll, rec) <= ExpectedCount(last.arg, rec)

\* An Insert failed after writing a part of the lines, on a collection that
\* held a record the model does not produce.
C8_Witness ==
    /\ last.op = "SavePolicy"
    /\ last.insErr # Nil
    /\ last.ret = "insert error"
    /\ last.stale
    /\ 0 < last.written /\ last.written < Len(last.lines)

(***************************************************************************)
(* C10 (as claimed): LoadPolicy has no per-record failure.  Whatever the   *)
(* collection holds, it fails only with the cursor's error, and when the   *)
(* cursor reports none it returns nil having appended one rule per stored  *)
(* record, in iteration order, to model[first character of ptype][ptype]   *)
(* after the rules already there.  A record with an empty ptype, or of a   *)
(* ptype the model does not declare, makes loadPolicyLine panic, so this   *)
(* is violated.                                                            *)
(***************************************************************************)
\* The rules of the records of scan that carry ptype key, in scan order.
RulesFor(scan, key) ==
    LET sel == SelectSeq(scan, LAMBDA r : r.PType = key)
    IN  [i \in DOMAIN sel |-> NonEmptyPrefix(Slots(sel[i]))]

ExpectedLoaded(model, scan) ==
    [sec \in DOMAIN model |->
        [key \in DOMAIN model[sec] |->
            Assertion(model[sec][key].Policy \o RulesFor(scan, key))]]

C10_LoadToleratesEveryRecord ==
    last.op = "LoadPolicy"
        => /\ ~last.panic
           /\ last.ret = last.iterErr
           /\ last.iterErr = Nil
                 => /\ SameDocs(last.scan, db.coll)
                    /\ held = ExpectedLoaded(last.arg, last.scan)
                    /\ RuleCount(held, DOMAIN held)
                          = RuleCount(last.arg, DOMAIN last.arg) + Len(db.coll)

(***************************************************************************)
(* C9: SavePolicy's drop-then-reinsert is not atomic for a concurrent      *)
(* LoadPolicy.  Nothing makes a LoadPolicy wait for a SavePolicy that is   *)
(* between its drop and its return, and a LoadPolicy whose Find falls      *)
(* there reads exactly the documents written so far (none, or a part) and  *)
(* returns nil with those rules only: neither the set stored before the    *)
(* save nor the set stored after it.                                       *)
(***************************************************************************)
\* The model a LoadPolicy of the documents docs would leave.
LoadedFrom(docs) == LoadLines(docs, FreshModel).model

C9_LoadSeesSaveInProgress ==
    /\ (lv.pc = "idle" /\ sv.pc = "inserting") => ENABLED LoadFind
    /\ (lv.pc \in {"iter", "done"} /\ lv.during = "inserting")
          => SameDocs(lv.scan, SubSeq(sv.lines, 1, lv.seen))
    /\ (lv.pc = "done" /\ lv.ret = Nil)
          => SamePairs(lv.model, LoadedFrom(lv.scan))

\* A LoadPolicy returned nil, during a SavePolicy that returned nil on a
\* collection that was not empty, with a policy that is neither the one
\* stored before the save nor the one stored after it.
C9_Witness ==
    /\ lv.pc = "done" /\ lv.ret = Nil
    /\ sv.pc = "done" /\ sv.ret = Nil
    /\ lv.during = "inserting"
    /\ sv.before # <<>>
    /\ ~SamePairs(lv.model, LoadedFrom(sv.before))
    /\ ~SamePairs(lv.model, LoadedFrom(sv.lines))

====
